---- MODULE Spec2Model ----
(***************************************************************************)
(* Device channel and messaging gateway of meshcore-dashboard.             *)
(*                                                                         *)
(* The model covers the request handlers of app/api/routes/channels.py,    *)
(* app/api/routes/messages.py and app/api/routes/auth.py that open a       *)
(* session to the one companion device.  Every action is one resumption    *)
(* of a handler coroutine: it starts when an awaited device call returns   *)
(* and runs up to the next awaited device call.  Strings are sequences of  *)
(* one-character strings, so that strip(), lstrip("#") and lower() are     *)
(* computed and not assumed.                                               *)
(***************************************************************************)
EXTENDS Integers, Sequences, FiniteSets, TLC

\* ------------------------------------------------------------------ bounds

\* Number of leading slots of the device table that Init draws freely.
PrefixLen == 2
\* Number of bytes of a channel secret (16 on the device).
SecretLen == 2

\* ------------------------------------------------------- program constants

MAX_CHANNEL_SLOTS == 8

\* ------------------------------------------------------------ python text

WS == {" "}

Min(S) == CHOOSE x \in S : \A y \in S : x <= y

\* str.lstrip(chars): drop the longest prefix made of characters of chars.
LStrip(s, chars) ==
    LET k == Min({i \in 1..(Len(s) + 1) : i = Len(s) + 1 \/ s[i] \notin chars})
    IN  SubSeq(s, k, Len(s))

Max(S) == CHOOSE x \in S : \A y \in S : x >= y

\* str.rstrip(chars): drop the longest suffix made of characters of chars.
RStrip(s, chars) ==
    LET k == Max({i \in 0..Len(s) : i = 0 \/ s[i] \notin chars})
    IN  SubSeq(s, 1, k)

\* Variant: the input is used as given.
StripNothing(s) == s

\* str.strip(): whitespace removed on both sides.
Strip(s) == RStrip(LStrip(s, WS), WS)

LowerChar(c) ==
    CASE c = "A" -> "a"
      [] c = "B" -> "b"
      [] c = "T" -> "t"
      [] OTHER -> c

\* str.lower().
Lower(s) == [i \in 1..Len(s) |-> LowerChar(s[i])]

HexDigits == <<"0", "1", "2", "3", "4", "5", "6", "7",
               "8", "9", "a", "b", "c", "d", "e", "f">>

\* bytes.hex(): two lowercase hexadecimal digits per byte.
Hex(b) ==
    [i \in 1..(2 * Len(b)) |->
        IF i % 2 = 1 THEN HexDigits[(b[(i + 1) \div 2] \div 16) + 1]
                     ELSE HexDigits[(b[i \div 2] % 16) + 1]]

\* dict.get(key, default).
Get(p, k, d) == IF k \in DOMAIN p THEN p[k] ELSE d

Bytes(v) == [t |-> "bytes", v |-> v]
Text(v) == [t |-> "str", v |-> v]

\* secret_raw.hex() if isinstance(secret_raw, (bytes, bytearray)) else str(secret_raw)
SecretHex(secret_raw) ==
    IF secret_raw.t = "bytes" THEN Hex(secret_raw.v) ELSE secret_raw.v

\* Variant: "or" in place of "and" in _is_empty_slot.
IsEmptySlotEither(name, secret_hex) ==
    name = <<>> \/ \A i \in 1..Len(secret_hex) : secret_hex[i] = "0"

\* _is_empty_slot: blank name and a secret whose hex rendering is all "0".
IsEmptySlot(name, secret_hex) ==
    name = <<>> /\ \A i \in 1..Len(secret_hex) : secret_hex[i] = "0"

\* _strip_hash: channel.lstrip("#").
StripHash(channel) == LStrip(channel, {"#"})

\* ChannelInfo dictionary built from a slot payload probed at idx.
Descriptor(payload, idx) ==
    [index |-> Get(payload, "channel_idx", idx),
     name |-> Get(payload, "channel_name", <<>>),
     secret_hex |-> SecretHex(Get(payload, "channel_secret", Bytes(<<>>)))]

\* ------------------------------------------------------------- the device

ZeroSecret == [i \in 1..SecretLen |-> 0]
KeySecret == [i \in 1..SecretLen |-> 171]

EmptySlot == [channel_name |-> <<>>, channel_secret |-> Bytes(ZeroSecret)]

\* The slot contents the device table is drawn from: an uninitialised slot,
\* named slots (one stored with the marker and in upper case), a keyed slot
\* without a name and a named slot whose secret is all zero.
SlotVals ==
    {EmptySlot,
     [channel_name |-> <<"a">>, channel_secret |-> Bytes(KeySecret)],
     [channel_name |-> <<"#", "A">>, channel_secret |-> Bytes(KeySecret)],
     [channel_name |-> <<>>, channel_secret |-> Bytes(KeySecret)],
     [channel_name |-> <<"b">>, channel_secret |-> Bytes(ZeroSecret)]}

Filler(i) ==
    [channel_name |-> <<"f", HexDigits[i + 1]>>, channel_secret |-> Bytes(KeySecret)]

Prefixes == UNION {[1..n -> SlotVals] : n \in 0..PrefixLen}

\* A table: a free prefix, then nothing (the device answers ERROR past its
\* end), or uninitialised slots, or initialised slots up to the firmware cap.
Pad(prefix, mode) ==
    IF mode = "end" THEN prefix
    ELSE [i \in 1..MAX_CHANNEL_SLOTS |->
            IF i <= Len(prefix) THEN prefix[i]
            ELSE IF mode = "empty" THEN EmptySlot ELSE Filler(i - 1)]

\* The tables of the runs with concurrent requests: short, so that the
\* device ends every pass after at most two slots.
ShortTables ==
    {<<>>,
     <<EmptySlot>>,
     <<[channel_name |-> <<"a">>, channel_secret |-> Bytes(KeySecret)]>>,
     <<EmptySlot, [channel_name |-> <<"#", "A">>, channel_secret |-> Bytes(KeySecret)]>>,
     <<[channel_name |-> <<"b">>, channel_secret |-> Bytes(ZeroSecret)], EmptySlot>>}
Tables == {Pad(p, m) : p \in Prefixes, m \in {"end", "empty", "full"}}

\* Results of an awaited device call: an event, no event at all (None), an
\* exception, or the expiry of asyncio.wait_for.
Ev(type, payload) == [kind |-> "event", type |-> type, payload |-> payload]
NoEvent == [kind |-> "none"]
Raised == [kind |-> "raise"]
TimedOut == [kind |-> "timeout"]

ErrPayload == [reason |-> <<"r", "e", "j">>]
ExcText == <<"e", "x", "c">>
NoResponse == <<"n", "o", " ", "r", "e", "s", "p", "o", "n", "s", "e">>

\* The payload of a slot as the library reports it: with the probed index
\* under "channel_idx", or without that key.
WithIdx(p, i) ==
    [k \in DOMAIN p \cup {"channel_idx"} |-> IF k = "channel_idx" THEN i ELSE p[k]]

\* How a get_channel call can end: the slot is returned (with or without
\* "channel_idx") when the index is inside the table; at any index the call
\* can end with the ERROR event (end of table), no event, or an exception.
ProbeEnds == {"ok", "ok_idx", "error", "none", "raise"}

ProbeCan(t, i, k) == k \in ProbeEnds /\ (k \in {"ok", "ok_idx"} => i < Len(t))

\* The result of get_channel(i) against table t that ends as k.
GetChannel(t, i, k) ==
    CASE k = "ok" -> Ev("OK", t[i + 1])
      [] k = "ok_idx" -> Ev("OK", WithIdx(t[i + 1], i))
      [] k = "error" -> Ev("ERROR", ErrPayload)
      [] k = "none" -> NoEvent
      [] OTHER -> Raised

\* set_channel(idx, name) applied by the device: the name is stored and the
\* secret is derived from it (never all zero).
DeviceWrite(t, i, name) ==
    [k \in 1..Len(t) |->
        IF k = i + 1
        THEN [channel_name |-> name, channel_secret |-> Bytes(KeySecret)]
        ELSE t[k]]

\* --------------------------------------------------------------- requests

Reqs == {"r1", "r2"}
NoReq == "none"
NoSlot == -1

\* Channel and message texts of POST /api/messages, names of POST /api/channels.
ChanInputs ==
    {<<>>, <<" ">>, <<"a">>, <<"A">>, <<"#", "a">>, <<"#", "A">>,
     <<" ", "a", " ">>, <<"#", "#", "a">>, <<"#">>, <<"b">>, <<"t">>,
     <<"#", " ", "a">>}
MsgInputs == {<<>>, <<" ">>, <<" ", "h", " ">>}
NameInputs == {<<>>, <<" ">>, <<"a">>, <<" ", "A">>, <<"#", "a">>, <<"t">>}

VARIABLES
    slots,        \* the device's channel table, slot i at position i + 1
    lockHolder,   \* device_lock: the request inside "async with", or NoReq
    waiters,      \* device_lock: requests suspended in acquire(), in order
    pc,           \* where each request's coroutine is suspended
    req,          \* each request's endpoint and trimmed inputs
    idx,          \* loop variable of the probe loop
    acc,          \* channels / existing: descriptors collected by the loop
    free,         \* free_slot of create_channel
    chan,         \* (chan_idx, chan_name) returned by the resolver
    resp,         \* the response (set when determined, sent when pc = "done")
    mc,           \* the local variable meshcore is not None
    open,         \* sessions connected and not yet disconnected
    scanlog,      \* history: the get_channel calls of the current pass
    calls,        \* history: device calls issued by each request
    sent,         \* history: arguments of send_chan_msg / set_channel
    tokens        \* rows of the tokens table, by issuing request

vars == <<slots, lockHolder, waiters, pc, req, idx, acc, free, chan, resp, mc,
          open, scanlog, calls, sent, tokens>>

NoCalls == [open |-> 0, probe |-> 0, set |-> 0, send |-> 0, appstart |-> 0, disc |-> 0]
NoLog == [pass |-> 0, probed |-> <<>>, ends |-> <<>>]
NoResp == [status |-> 0]
NoChan == [index |-> NoSlot, name |-> <<>>]
NoSent == [cmd |-> "none", index |-> NoSlot, text |-> <<>>, ack |-> "pending"]

\* No request has arrived: the gate is free and no session is open.
InitOver(tables, reqs) ==
    /\ slots \in tables
    /\ lockHolder = NoReq
    /\ waiters = <<>>
    /\ pc = [r \in reqs |-> "idle"]
    /\ req = [r \in reqs |-> [kind |-> "none"]]
    /\ idx = [r \in reqs |-> 0]
    /\ acc = [r \in reqs |-> <<>>]
    /\ free = [r \in reqs |-> NoSlot]
    /\ chan = [r \in reqs |-> NoChan]
    /\ resp = [r \in reqs |-> NoResp]
    /\ mc = [r \in reqs |-> FALSE]
    /\ open = {}
    /\ scanlog = [r \in reqs |-> NoLog]
    /\ calls = [r \in reqs |-> NoCalls]
    /\ sent = [r \in reqs |-> NoSent]
    /\ tokens = {}

InitWith(tables) == InitOver(tables, Reqs)

Init == InitWith(ShortTables)
InitSeq == InitWith(Tables)

Err(status, text, arg) == [status |-> status, message |-> text, arg |-> arg]

Count(c, r, what) == [c EXCEPT ![r][what] = @ + 1]

\* Variant: the ERROR event does not end the loop.
ProbeStopsMissesError(ev) == ev.kind = "raise" \/ ev.kind = "none"

\* The probe loops stop on an exception ("except Exception: break") and on
\* "event is None or event.type == EventType.ERROR".
ProbeStops(ev) ==
    \/ ev.kind = "raise"
    \/ ev.kind = "none"
    \/ (ev.kind = "event" /\ ev.type = "ERROR")

\* History of a pass: the indices get_channel was called with, and how each
\* call that has returned ended ("ok", or the kind of failure).
LogBegin(l) == [pass |-> l.pass + 1, probed |-> <<0>>, ends |-> <<>>]
LogEnd(l, k) == [l EXCEPT !.ends = Append(@, IF k \in {"ok", "ok_idx"} THEN "ok" ELSE k)]
LogIssue(l, i) == [l EXCEPT !.probed = Append(@, i)]

\* The history after get_channel(idx[r]) ended as k and the handler ran on
\* to its next await: one more call is logged when the loop went on.
LogProbe(r, k, where) ==
    scanlog' = [scanlog EXCEPT
                  ![r] = IF pc'[r] = where
                         THEN LogIssue(LogEnd(@, k), idx'[r]) ELSE LogEnd(@, k)]

\* ------------------------------------------------------------ device_lock

\* Lock.acquire() returns at once when the lock is free and nobody waits.
LockFree == lockHolder = NoReq /\ waiters = <<>>

\* Variant: the handler body is not wrapped in "async with device_lock:".
AcquireUngated(r) ==
    /\ pc' = [pc EXCEPT ![r] = "connecting"]
    /\ calls' = Count(calls, r, "open")
    /\ UNCHANGED <<lockHolder, waiters>>

\* Variant: the newest waiter is put at the head of the queue.
AcquireLifo(r) ==
    IF LockFree
    THEN /\ lockHolder' = r
         /\ pc' = [pc EXCEPT ![r] = "connecting"]
         /\ calls' = Count(calls, r, "open")
         /\ UNCHANGED waiters
    ELSE /\ waiters' = <<r>> \o waiters
         /\ pc' = [pc EXCEPT ![r] = "waitlock"]
         /\ UNCHANGED <<lockHolder, calls>>

\* Variant: a request that finds the lock held takes it over, as if the
\* holder's wait had expired.
AcquireTakesOver(r) ==
    /\ lockHolder' = r
    /\ pc' = [pc EXCEPT ![r] = "connecting"]
    /\ calls' = Count(calls, r, "open")
    /\ UNCHANGED waiters

\* "async with device_lock:" entered by r, which then awaits connect_to_device.
Acquire(r) ==
    IF LockFree
    THEN /\ lockHolder' = r
         /\ pc' = [pc EXCEPT ![r] = "connecting"]
         /\ calls' = Count(calls, r, "open")
         /\ UNCHANGED waiters
    ELSE /\ waiters' = Append(waiters, r)
         /\ pc' = [pc EXCEPT ![r] = "waitlock"]
         /\ UNCHANGED <<lockHolder, calls>>

\* Variant: the lock is not released when the block is left.
ReleaseNever(r) == lockHolder' = lockHolder

\* Leaving "async with device_lock:" (only the send path is inside one).
Release(r) ==
    lockHolder' = IF req[r].kind = "send" /\ lockHolder = r THEN NoReq ELSE lockHolder

\* The first waiter is woken by release() and takes the lock.
LockGrant(r) ==
    /\ pc[r] = "waitlock"
    /\ lockHolder = NoReq
    /\ waiters # <<>> /\ Head(waiters) = r
    /\ lockHolder' = r
    /\ waiters' = Tail(waiters)
    /\ pc' = [pc EXCEPT ![r] = "connecting"]
    /\ calls' = Count(calls, r, "open")
    /\ UNCHANGED <<slots, req, idx, acc, free, chan, resp, mc, open, scanlog,
                   sent, tokens>>

\* ------------------------------------------------------- common fragments

\* An HTTPException raised before the try block: nothing to clean up.
Reject(r, response) ==
    /\ pc' = [pc EXCEPT ![r] = "done"]
    /\ resp' = [resp EXCEPT ![r] = response]
    /\ UNCHANGED <<lockHolder, waiters, calls>>

\* Variant: the handler has no finally clause, the session is never closed.
LeaveWithoutDisconnect(r, response, c) ==
    /\ pc' = [pc EXCEPT ![r] = "done"]
    /\ resp' = [resp EXCEPT ![r] = response]
    /\ calls' = c

\* The try block is left with the response determined while meshcore is
\* set: the finally clause awaits meshcore.disconnect().
Leave(r, response, c) ==
    /\ pc' = [pc EXCEPT ![r] = "disconnecting"]
    /\ resp' = [resp EXCEPT ![r] = response]
    /\ calls' = Count(c, r, "disc")

\* The loop goes on to the next index: get_channel(idx + 1) is awaited.
Continue(r, where) ==
    /\ pc' = [pc EXCEPT ![r] = where]
    /\ idx' = [idx EXCEPT ![r] = @ + 1]
    /\ calls' = Count(calls, r, "probe")

\* A pass of a probe loop begins: get_channel(0) is awaited.
BeginPass(r, where, c) ==
    /\ pc' = [pc EXCEPT ![r] = where]
    /\ idx' = [idx EXCEPT ![r] = 0]
    /\ scanlog' = [scanlog EXCEPT ![r] = LogBegin(@)]
    /\ calls' = Count(c, r, "probe")

LastIndex(r) == idx[r] + 1 >= MAX_CHANNEL_SLOTS

\* ---------------------------------------------------- POST /api/messages

\* Variant: the needle is not lower-cased.
NeedleKeepsCase(channel_name) == StripHash(channel_name)

\* needle = _strip_hash(channel_name).lower()
Needle(channel_name) == Lower(StripHash(channel_name))

\* Variant: the resolver skips every slot without a name.
ResolverSkipsNameOnly(name, secret_hex) == name = <<>>

\* "not name and all(c == '0' for c in secret_hex)": the resolver's own test.
ResolverSkips(name, secret_hex) ==
    name = <<>> /\ \A i \in 1..Len(secret_hex) : secret_hex[i] = "0"

\* Variant: the stored name is compared without stripping its marker.
NameMatchesUnstripped(name, needle) == Lower(name) = needle

\* _strip_hash(name).lower() == needle
NameMatches(name, needle) == Lower(StripHash(name)) = needle

\* Variant: the 404 reports the needle instead of the requested name.
NotFoundNeedle(channel_name) ==
    Err(404, "Channel '{}' not found on device", Needle(channel_name))

\* Variant: the missing channel is reported as a bad request.
NotFoundAs400(channel_name) == Err(400, "Channel '{}' not found on device", channel_name)

\* The 404 raised after the resolver's loop.
NotFound(channel_name) == Err(404, "Channel '{}' not found on device", channel_name)

\* _resolve_channel_index as a function of the slots the device delivers:
\* the first slot from index i on that is not skipped and whose name matches.
RECURSIVE ResolveFrom(_, _, _)
ResolveFrom(t, i, channel_name) ==
    IF i >= MAX_CHANNEL_SLOTS \/ i >= Len(t)
    THEN [found |-> FALSE, index |-> NoSlot, name |-> <<>>]
    ELSE LET payload == t[i + 1]
             name == Get(payload, "channel_name", <<>>)
             secret_hex == SecretHex(Get(payload, "channel_secret", Bytes(<<>>)))
         IN  IF ~ResolverSkips(name, secret_hex)
                /\ NameMatches(name, Needle(channel_name))
             THEN [found |-> TRUE, index |-> Get(payload, "channel_idx", i),
                   name |-> name]
             ELSE ResolveFrom(t, i + 1, channel_name)

\* Variant: the gate is entered before the inputs are checked.
StartSendGatesFirst(r, channel, message) ==
    /\ pc[r] = "idle"
    /\ req' = [req EXCEPT ![r] = [kind |-> "send",
                                  channel |-> channel,
                                  message |-> message,
                                  channel_name |-> Strip(channel),
                                  message_text |-> Strip(message)]]
    /\ Acquire(r)
    /\ UNCHANGED <<slots, idx, acc, free, chan, resp, mc, open, scanlog, sent, tokens>>

\* The request arrives: inputs are trimmed and checked, then the gate is entered.
StartSend(r, channel, message) ==
    /\ pc[r] = "idle"
    /\ LET channel_name == Strip(channel)
           message_text == Strip(message)
       IN  /\ req' = [req EXCEPT ![r] = [kind |-> "send",
                                         channel |-> channel,
                                         message |-> message,
                                         channel_name |-> channel_name,
                                         message_text |-> message_text]]
           /\ IF channel_name = <<>>
              THEN Reject(r, Err(400, "channel must not be empty", <<>>))
              ELSE IF message_text = <<>>
              THEN Reject(r, Err(400, "message must not be empty", <<>>))
              ELSE Acquire(r) /\ UNCHANGED resp
    /\ UNCHANGED <<slots, idx, acc, free, chan, mc, open, scanlog, sent, tokens>>

\* Variant: a match is remembered and the loop goes on, so that the last
\* matching slot is returned.
ResolveProbeLast(r, k) ==
    /\ pc[r] = "resolve"
    /\ ProbeCan(slots, idx[r], k)
    /\ LET ev == GetChannel(slots, idx[r], k)
           name == Get(ev.payload, "channel_name", <<>>)
           secret_hex == SecretHex(Get(ev.payload, "channel_secret", Bytes(<<>>)))
           hit == /\ ~ProbeStops(ev)
                  /\ ~ResolverSkips(name, secret_hex)
                  /\ NameMatches(name, Needle(req[r].channel_name))
           c == IF hit
                THEN [index |-> Get(ev.payload, "channel_idx", idx[r]), name |-> name]
                ELSE chan[r]
       IN  /\ chan' = [chan EXCEPT ![r] = c]
           /\ IF ProbeStops(ev) \/ LastIndex(r)
              THEN IF c = NoChan
                   THEN /\ Leave(r, NotFound(req[r].channel_name), calls)
                        /\ UNCHANGED <<idx, sent>>
                   ELSE /\ pc' = [pc EXCEPT ![r] = "sending"]
                        /\ sent' = [sent EXCEPT ![r] = [cmd |-> "send_chan_msg",
                                                        index |-> c.index,
                                                        text |-> req[r].message_text,
                                                        ack |-> "pending"]]
                        /\ calls' = Count(calls, r, "send")
                        /\ UNCHANGED <<idx, resp>>
              ELSE /\ Continue(r, "resolve")
                   /\ UNCHANGED <<resp, sent>>
    /\ LogProbe(r, k, "resolve")
    /\ UNCHANGED <<slots, lockHolder, waiters, req, acc, free, mc, open, tokens>>

\* One iteration of the loop of _resolve_channel_index: get_channel(idx)
\* returned ev.
ResolveProbe(r, k) ==
    /\ pc[r] = "resolve"
    /\ ProbeCan(slots, idx[r], k)
    /\ LET ev == GetChannel(slots, idx[r], k) IN
       IF ProbeStops(ev)
       THEN /\ Leave(r, NotFound(req[r].channel_name), calls)
            /\ UNCHANGED <<idx, chan, sent>>
       ELSE LET payload == ev.payload
                name == Get(payload, "channel_name", <<>>)
                secret_hex == SecretHex(Get(payload, "channel_secret", Bytes(<<>>)))
                found == Get(payload, "channel_idx", idx[r])
            IN  IF ~ResolverSkips(name, secret_hex)
                   /\ NameMatches(name, Needle(req[r].channel_name))
                THEN /\ chan' = [chan EXCEPT ![r] = [index |-> found, name |-> name]]
                     /\ pc' = [pc EXCEPT ![r] = "sending"]
                     /\ sent' = [sent EXCEPT ![r] = [cmd |-> "send_chan_msg",
                                                     index |-> found,
                                                     text |-> req[r].message_text,
                                                     ack |-> "pending"]]
                     /\ calls' = Count(calls, r, "send")
                     /\ UNCHANGED <<idx, resp>>
                ELSE IF LastIndex(r)
                THEN /\ Leave(r, NotFound(req[r].channel_name), calls)
                     /\ UNCHANGED <<idx, chan, sent>>
                ELSE /\ Continue(r, "resolve")
                     /\ UNCHANGED <<resp, chan, sent>>
    /\ LogProbe(r, k, "resolve")
    /\ UNCHANGED <<slots, lockHolder, waiters, req, acc, free, mc, open, tokens>>

\* How the bounded wait on send_chan_msg can end.
SendEnds == {"ok", "error", "none", "timeout", "raise"}

SendResult(k) ==
    CASE k = "ok" -> Ev("OK", <<>>)
      [] k = "error" -> Ev("ERROR", ErrPayload)
      [] k = "none" -> NoEvent
      [] k = "timeout" -> TimedOut
      [] OTHER -> Raised

\* Variant: "except Exception" placed before "except asyncio.TimeoutError".
SendResponseGenericFirst(ev, c) ==
    IF ev.kind = "timeout" \/ ev.kind = "raise"
    THEN Err(502, "Failed to send message: {}", ExcText)
    ELSE IF ev.kind = "none"
    THEN Err(502, "Device rejected the message: {}", NoResponse)
    ELSE IF ev.type = "ERROR"
    THEN Err(502, "Device rejected the message: {}", ev.payload)
    ELSE [status |-> 200,
          body |-> [status |-> "ok", channel_index |-> c.index,
                    channel_name |-> c.name]]

\* Variant: the 200 reports the matched name without its marker.
SendResponseStripped(ev, c) ==
    IF ev.kind = "timeout"
    THEN Err(504, "Device did not acknowledge the message send (timeout)", <<>>)
    ELSE IF ev.kind = "raise"
    THEN Err(502, "Failed to send message: {}", ExcText)
    ELSE IF ev.kind = "none"
    THEN Err(502, "Device rejected the message: {}", NoResponse)
    ELSE IF ev.type = "ERROR"
    THEN Err(502, "Device rejected the message: {}", ev.payload)
    ELSE [status |-> 200,
          body |-> [status |-> "ok", channel_index |-> c.index,
                    channel_name |-> StripHash(c.name)]]

\* The response that follows the outcome of
\* asyncio.wait_for(send_chan_msg(chan_idx, message_text), timeout=10).
SendResponse(ev, c) ==
    IF ev.kind = "timeout"
    THEN Err(504, "Device did not acknowledge the message send (timeout)", <<>>)
    ELSE IF ev.kind = "raise"
    THEN Err(502, "Failed to send message: {}", ExcText)
    ELSE IF ev.kind = "none"
    THEN Err(502, "Device rejected the message: {}", NoResponse)
    ELSE IF ev.type = "ERROR"
    THEN Err(502, "Device rejected the message: {}", ev.payload)
    ELSE [status |-> 200,
          body |-> [status |-> "ok", channel_index |-> c.index,
                    channel_name |-> c.name]]

\* Variant: a send that timed out is issued a second time.
SendDoneRetry(r, k) ==
    /\ pc[r] = "sending"
    /\ k \in SendEnds
    /\ sent' = [sent EXCEPT ![r].ack = k]
    /\ IF k = "timeout" /\ calls[r].send < 2
       THEN calls' = Count(calls, r, "send") /\ UNCHANGED <<pc, resp>>
       ELSE Leave(r, SendResponse(SendResult(k), chan[r]), calls)
    /\ UNCHANGED <<slots, lockHolder, waiters, req, idx, acc, free, chan, mc,
                   open, scanlog, tokens>>

\* send_chan_msg returned, raised or timed out.
SendDone(r, k) ==
    /\ pc[r] = "sending"
    /\ k \in SendEnds
    /\ Leave(r, SendResponse(SendResult(k), chan[r]), calls)
    /\ sent' = [sent EXCEPT ![r].ack = k]
    /\ UNCHANGED <<slots, lockHolder, waiters, req, idx, acc, free, chan, mc,
                   open, scanlog, tokens>>

\* ------------------------------------------------------ session lifecycle

\* Variant: every endpoint swallows a failed open the way login does.
ConnectFailedSwallowed(kind) == [status |-> 200, body |-> [device_name |-> <<>>]]

\* How the awaited open of the session ended for endpoint kind.
ConnectFailed(kind) ==
    IF kind = "login"
    THEN [status |-> 200, body |-> [device_name |-> <<>>]]
    ELSE Err(502, "Device connection failed: {}", ExcText)

\* connect_to_device returned a session (ok) or raised.
ConnectDone(r, ok) ==
    /\ pc[r] = "connecting"
    /\ IF ok
       THEN /\ mc' = [mc EXCEPT ![r] = TRUE]
            /\ open' = open \cup {r}
            /\ IF req[r].kind = "login"
               THEN /\ pc' = [pc EXCEPT ![r] = "appstart"]
                    /\ calls' = Count(calls, r, "appstart")
                    /\ UNCHANGED <<idx, scanlog>>
               ELSE BeginPass(r, CASE req[r].kind = "send" -> "resolve"
                                   [] req[r].kind = "create" -> "cscan"
                                   [] OTHER -> "scan", calls)
            /\ UNCHANGED <<resp, lockHolder>>
       ELSE /\ pc' = [pc EXCEPT ![r] = "done"]
            /\ resp' = [resp EXCEPT ![r] = ConnectFailed(req[r].kind)]
            /\ Release(r)
            /\ UNCHANGED <<mc, open, idx, scanlog, calls>>
    /\ UNCHANGED <<slots, waiters, req, acc, free, chan, sent, tokens>>

\* Variant: the gate is left while the session is still connected.
ReleaseStillConnected(r, how) ==
    /\ pc[r] = "disconnecting"
    /\ how \in {"ok", "raise", "timeout"}
    /\ IF lockHolder = r
       THEN Release(r) /\ UNCHANGED <<pc, open>>
       ELSE /\ open' = open \ {r}
            /\ pc' = [pc EXCEPT ![r] = "done"]
            /\ UNCHANGED lockHolder
    /\ UNCHANGED <<slots, waiters, req, idx, acc, free, chan, resp, mc, scanlog,
                   calls, sent, tokens>>

\* Variant: a disconnect that raises or times out replaces the response.
DisconnectDoneSurfaces(r, how) ==
    /\ pc[r] = "disconnecting"
    /\ how \in {"ok", "raise", "timeout"}
    /\ open' = open \ {r}
    /\ Release(r)
    /\ pc' = [pc EXCEPT ![r] = "done"]
    /\ resp' = [resp EXCEPT ![r] = IF how = "ok" THEN @
                                   ELSE Err(500, "Internal Server Error", <<>>)]
    /\ UNCHANGED <<slots, waiters, req, idx, acc, free, chan, mc, scanlog,
                   calls, sent, tokens>>

\* The finally clause: asyncio.wait_for(meshcore.disconnect(), timeout=5)
\* returned, raised or timed out; all three are swallowed.
DisconnectDone(r, how) ==
    /\ pc[r] = "disconnecting"
    /\ how \in {"ok", "raise", "timeout"}
    /\ open' = open \ {r}
    /\ Release(r)
    /\ pc' = [pc EXCEPT ![r] = "done"]
    /\ UNCHANGED <<slots, waiters, req, idx, acc, free, chan, resp, mc, scanlog,
                   calls, sent, tokens>>

\* ------------------------------------------- GET and POST /api/channels

\* Variant: the listing enters "async with device_lock:" before it opens
\* its session.
StartListGated(r) ==
    /\ pc[r] = "idle"
    /\ req' = [req EXCEPT ![r] = [kind |-> "list"]]
    /\ Acquire(r)
    /\ UNCHANGED <<slots, idx, acc, free, chan, resp, mc, open, scanlog, sent,
                   tokens>>

StartList(r) ==
    /\ pc[r] = "idle"
    /\ req' = [req EXCEPT ![r] = [kind |-> "list"]]
    /\ pc' = [pc EXCEPT ![r] = "connecting"]
    /\ calls' = Count(calls, r, "open")
    /\ UNCHANGED <<slots, lockHolder, waiters, idx, acc, free, chan, resp, mc,
                   open, scanlog, sent, tokens>>

\* The response built from the list _fetch_all_channels returned.
ChannelsResponse(kind, channels) ==
    [status |-> IF kind = "create" THEN 201 ELSE 200,
     body |-> [status |-> "ok", channels |-> channels]]

\* Variant: the exception of a probe is not caught and becomes the
\* request's failure.
ScanProbePropagates(r, k) ==
    /\ pc[r] = "scan"
    /\ ProbeCan(slots, idx[r], k)
    /\ LET ev == GetChannel(slots, idx[r], k) IN
       IF ev.kind = "raise"
       THEN /\ Leave(r, Err(500, "Internal Server Error", <<>>), calls)
            /\ UNCHANGED <<idx, acc>>
       ELSE IF ProbeStops(ev)
       THEN /\ Leave(r, ChannelsResponse(req[r].kind, acc[r]), calls)
            /\ UNCHANGED <<idx, acc>>
       ELSE LET payload == ev.payload
                d == Descriptor(payload, idx[r])
                channels == IF IsEmptySlot(d.name, d.secret_hex)
                            THEN acc[r] ELSE Append(acc[r], d)
            IN  /\ acc' = [acc EXCEPT ![r] = channels]
                /\ IF LastIndex(r)
                   THEN /\ Leave(r, ChannelsResponse(req[r].kind, channels), calls)
                        /\ UNCHANGED idx
                   ELSE /\ Continue(r, "scan")
                        /\ UNCHANGED resp
    /\ LogProbe(r, k, "scan")
    /\ UNCHANGED <<slots, lockHolder, waiters, req, free, chan, mc, open, sent,
                   tokens>>

\* One iteration of the loop of _fetch_all_channels.
ScanProbe(r, k) ==
    /\ pc[r] = "scan"
    /\ ProbeCan(slots, idx[r], k)
    /\ LET ev == GetChannel(slots, idx[r], k) IN
       IF ProbeStops(ev)
       THEN /\ Leave(r, ChannelsResponse(req[r].kind, acc[r]), calls)
            /\ UNCHANGED <<idx, acc>>
       ELSE LET payload == ev.payload
                d == Descriptor(payload, idx[r])
                channels == IF IsEmptySlot(d.name, d.secret_hex)
                            THEN acc[r] ELSE Append(acc[r], d)
            IN  /\ acc' = [acc EXCEPT ![r] = channels]
                /\ IF LastIndex(r)
                   THEN /\ Leave(r, ChannelsResponse(req[r].kind, channels), calls)
                        /\ UNCHANGED idx
                   ELSE /\ Continue(r, "scan")
                        /\ UNCHANGED resp
    /\ LogProbe(r, k, "scan")
    /\ UNCHANGED <<slots, lockHolder, waiters, req, free, chan, mc, open, sent,
                   tokens>>

\* Variant: the name is not checked before the session is opened.
StartCreateUnchecked(r, name) ==
    /\ pc[r] = "idle"
    /\ req' = [req EXCEPT ![r] = [kind |-> "create",
                                  name |-> name,
                                  channel_name |-> Strip(name)]]
    /\ pc' = [pc EXCEPT ![r] = "connecting"]
    /\ calls' = Count(calls, r, "open")
    /\ UNCHANGED <<lockHolder, waiters, resp>>
    /\ UNCHANGED <<slots, idx, acc, free, chan, mc, open, scanlog, sent, tokens>>

\* The request arrives: the name is trimmed and checked, then the session
\* is opened (no gate on this path).
StartCreate(r, name) ==
    /\ pc[r] = "idle"
    /\ LET channel_name == Strip(name)
       IN  /\ req' = [req EXCEPT ![r] = [kind |-> "create",
                                         name |-> name,
                                         channel_name |-> channel_name]]
           /\ IF channel_name = <<>>
              THEN Reject(r, Err(400, "Channel name must not be empty", <<>>))
              ELSE /\ pc' = [pc EXCEPT ![r] = "connecting"]
                   /\ calls' = Count(calls, r, "open")
                   /\ UNCHANGED <<lockHolder, waiters, resp>>
    /\ UNCHANGED <<slots, idx, acc, free, chan, mc, open, scanlog, sent, tokens>>

\* Variant: the names are compared as written.
IsDuplicateExact(name, channel_name) == name = channel_name

\* name.lower() == channel_name.lower()
IsDuplicate(name, channel_name) == Lower(name) = Lower(channel_name)

\* Variant: free_slot starts as 0 instead of None.
AfterCreateLoopDefaultZero(r, free_slot) ==
    /\ pc' = [pc EXCEPT ![r] = "writing"]
    /\ sent' = [sent EXCEPT ![r] = [cmd |-> "set_channel",
                                    index |-> IF free_slot = NoSlot THEN 0 ELSE free_slot,
                                    text |-> req[r].channel_name,
                                    ack |-> "pending"]]
    /\ calls' = Count(calls, r, "set")
    /\ UNCHANGED resp

\* Variant: without a free slot set_channel(0) is still issued before the
\* 400 is raised.
AfterCreateLoopWritesAnyway(r, free_slot) ==
    IF free_slot = NoSlot
    THEN /\ Leave(r, Err(400, "No free channel slot available (all 8 slots are occupied)",
                         <<>>), Count(calls, r, "set"))
         /\ sent' = [sent EXCEPT ![r] = [cmd |-> "set_channel", index |-> 0,
                                         text |-> req[r].channel_name,
                                         ack |-> "pending"]]
    ELSE /\ pc' = [pc EXCEPT ![r] = "writing"]
         /\ sent' = [sent EXCEPT ![r] = [cmd |-> "set_channel", index |-> free_slot,
                                         text |-> req[r].channel_name,
                                         ack |-> "pending"]]
         /\ calls' = Count(calls, r, "set")
         /\ UNCHANGED resp

\* After the creator's loop: no free slot is a 400, otherwise
\* set_channel(free_slot, channel_name) is awaited.
AfterCreateLoop(r, free_slot) ==
    IF free_slot = NoSlot
    THEN /\ Leave(r, Err(400, "No free channel slot available (all 8 slots are occupied)",
                         <<>>), calls)
         /\ UNCHANGED sent
    ELSE /\ pc' = [pc EXCEPT ![r] = "writing"]
         /\ sent' = [sent EXCEPT ![r] = [cmd |-> "set_channel", index |-> free_slot,
                                         text |-> req[r].channel_name,
                                         ack |-> "pending"]]
         /\ calls' = Count(calls, r, "set")
         /\ UNCHANGED resp

\* Variant: every empty slot replaces the recorded one.
FreeSlotLast(free_slot, is_empty, i) == IF is_empty THEN i ELSE free_slot

\* free_slot after the slot probed at i was classified: "if free_slot is
\* None: free_slot = idx" for an empty slot, kept otherwise.
FreeSlot(free_slot, is_empty, i) ==
    IF is_empty /\ free_slot = NoSlot THEN i ELSE free_slot

\* One iteration of the loop of create_channel.
CreateProbe(r, k) ==
    /\ pc[r] = "cscan"
    /\ ProbeCan(slots, idx[r], k)
    /\ LET ev == GetChannel(slots, idx[r], k) IN
       IF ProbeStops(ev)
       THEN /\ AfterCreateLoop(r, free[r])
            /\ UNCHANGED <<idx, acc, free>>
       ELSE LET slot_payload == ev.payload
                d == Descriptor(slot_payload, idx[r])
                is_empty == IsEmptySlot(d.name, d.secret_hex)
                free_slot == FreeSlot(free[r], is_empty, idx[r])
            IN  IF ~is_empty /\ IsDuplicate(d.name, req[r].channel_name)
                THEN /\ Leave(r, [status |-> 409,
                                  message |-> "Channel '{}' already exists at index {}",
                                  arg |-> d.name, index |-> idx[r]], calls)
                     /\ UNCHANGED <<idx, acc, free, sent>>
                ELSE /\ free' = [free EXCEPT ![r] = free_slot]
                     /\ acc' = [acc EXCEPT ![r] = IF is_empty THEN @ ELSE Append(@, d)]
                     /\ IF LastIndex(r)
                        THEN AfterCreateLoop(r, free_slot) /\ UNCHANGED idx
                        ELSE Continue(r, "cscan") /\ UNCHANGED <<resp, sent>>
    /\ LogProbe(r, k, "cscan")
    /\ UNCHANGED <<slots, lockHolder, waiters, req, chan, mc, open, tokens>>

\* How set_channel can end.  An OK acknowledgement means the device stored
\* the channel and an ERROR event that it did not; a lost answer or an
\* exception says nothing about it.
WriteEnds == {"ok", "error", "none", "raise"}

WriteResult(k) ==
    CASE k = "ok" -> Ev("OK", <<>>)
      [] k = "error" -> Ev("ERROR", ErrPayload)
      [] k = "none" -> NoEvent
      [] OTHER -> Raised

WriteCan(k, applied) ==
    /\ k \in WriteEnds
    /\ applied \in BOOLEAN
    /\ (k = "ok" => applied)
    /\ (k = "error" => ~applied)

\* Variant: "result is None" is not tested.
WriteFailedMissesNone(ev) ==
    ev.kind = "raise" \/ (ev.kind = "event" /\ ev.type = "ERROR")

\* "result is None or result.type == EventType.ERROR", or an exception.
WriteFailed(ev) ==
    ev.kind = "raise" \/ ev.kind = "none" \/ ev.type = "ERROR"

\* The failure raised after set_channel.
WriteFailure(ev) ==
    IF ev.kind = "raise"
    THEN Err(502, "Failed to write channel: {}", ExcText)
    ELSE IF ev.kind = "none"
    THEN Err(504, "Device did not acknowledge channel creation: {}", NoResponse)
    ELSE Err(504, "Device did not acknowledge channel creation: {}", ev.payload)

\* Variant: on success the list collected before the write is returned with
\* the new channel appended, and the table is not read again.
WriteDoneOptimistic(r, k, applied) ==
    /\ pc[r] = "writing"
    /\ WriteCan(k, applied)
    /\ slots' = IF applied /\ free[r] < Len(slots)
                THEN DeviceWrite(slots, free[r], req[r].channel_name) ELSE slots
    /\ sent' = [sent EXCEPT ![r].ack = k]
    /\ Leave(r, IF WriteFailed(WriteResult(k))
                THEN WriteFailure(WriteResult(k))
                ELSE ChannelsResponse("create",
                         Append(acc[r], [index |-> free[r],
                                         name |-> req[r].channel_name,
                                         secret_hex |-> Hex(KeySecret)])), calls)
    /\ UNCHANGED <<idx, acc, scanlog>>
    /\ UNCHANGED <<lockHolder, waiters, req, free, chan, mc, open, tokens>>

\* set_channel returned or raised; on success the table is read again.
WriteDone(r, k, applied) ==
    /\ pc[r] = "writing"
    /\ WriteCan(k, applied)
    /\ slots' = IF applied /\ free[r] < Len(slots)
                THEN DeviceWrite(slots, free[r], req[r].channel_name) ELSE slots
    /\ sent' = [sent EXCEPT ![r].ack = k]
    /\ IF WriteFailed(WriteResult(k))
       THEN /\ Leave(r, WriteFailure(WriteResult(k)), calls)
            /\ UNCHANGED <<idx, acc, scanlog>>
       ELSE /\ BeginPass(r, "scan", calls)
            /\ acc' = [acc EXCEPT ![r] = <<>>]
            /\ UNCHANGED resp
    /\ UNCHANGED <<lockHolder, waiters, req, free, chan, mc, open, tokens>>

\* ------------------------------------------------------- POST /api/login

\* The outcome of the users query and of the checks on its row.
LoginChecks == {"query_failed", "no_row", "inactive", "bad_password", "ok"}

\* How client.insert("tokens", ...) ended, when the handler got that far.
Insert(check, stored) ==
    IF check = "ok" THEN (IF stored THEN "ok" ELSE "failed") ELSE "none"

\* Variant: the "active" column is not tested.
StartLoginSkipsActive(r, check, stored) ==
    /\ pc[r] = "idle"
    /\ check \in LoginChecks
    /\ stored \in BOOLEAN
    /\ req' = [req EXCEPT ![r] = [kind |-> "login", check |-> check,
                                  insert |-> IF check \in {"ok", "inactive"}
                                             THEN (IF stored THEN "ok" ELSE "failed")
                                             ELSE "none"]]
    /\ IF check = "query_failed"
       THEN Reject(r, Err(503, "Database unavailable", <<>>)) /\ UNCHANGED tokens
       ELSE IF check = "no_row" \/ check = "bad_password"
       THEN Reject(r, Err(401, "Invalid credentials", <<>>)) /\ UNCHANGED tokens
       ELSE IF ~stored
       THEN Reject(r, Err(503, "Database unavailable", <<>>)) /\ UNCHANGED tokens
       ELSE /\ tokens' = tokens \cup {r}
            /\ pc' = [pc EXCEPT ![r] = "connecting"]
            /\ calls' = Count(calls, r, "open")
            /\ UNCHANGED <<lockHolder, waiters, resp>>
    /\ UNCHANGED <<slots, idx, acc, free, chan, mc, open, scanlog, sent>>

\* The request arrives: the users query, the checks on its row and the
\* insert of the token, then the open of the session for the device name.
StartLogin(r, check, stored) ==
    /\ pc[r] = "idle"
    /\ check \in LoginChecks
    /\ stored \in BOOLEAN
    /\ req' = [req EXCEPT ![r] = [kind |-> "login", check |-> check,
                                  insert |-> Insert(check, stored)]]
    /\ IF check = "query_failed"
       THEN Reject(r, Err(503, "Database unavailable", <<>>)) /\ UNCHANGED tokens
       ELSE IF check = "no_row" \/ check = "bad_password"
       THEN Reject(r, Err(401, "Invalid credentials", <<>>)) /\ UNCHANGED tokens
       ELSE IF check = "inactive"
       THEN Reject(r, Err(401, "Account is inactive", <<>>)) /\ UNCHANGED tokens
       ELSE IF ~stored
       THEN Reject(r, Err(503, "Database unavailable", <<>>)) /\ UNCHANGED tokens
       ELSE /\ tokens' = tokens \cup {r}
            /\ pc' = [pc EXCEPT ![r] = "connecting"]
            /\ calls' = Count(calls, r, "open")
            /\ UNCHANGED <<lockHolder, waiters, resp>>
    /\ UNCHANGED <<slots, idx, acc, free, chan, mc, open, scanlog, sent>>

DeviceName == <<"d">>

\* How send_appstart can end.
AppstartEnds == {"ok", "ok_noname", "error", "none", "raise"}

AppstartResult(k) ==
    CASE k = "ok" -> Ev("OK", [name |-> DeviceName])
      [] k = "ok_noname" -> Ev("OK", [model |-> DeviceName])
      [] k = "error" -> Ev("ERROR", [reason |-> ErrPayload])
      [] k = "none" -> NoEvent
      [] OTHER -> Raised

\* device_name after send_appstart.
DeviceNameOf(ev) ==
    IF ev.kind = "event" /\ ev.type # "ERROR" THEN Get(ev.payload, "name", <<>>)
    ELSE <<>>

\* Variant: an exception of send_appstart is not caught and fails the login.
AppstartDonePropagates(r, k) ==
    /\ pc[r] = "appstart"
    /\ k \in AppstartEnds
    /\ Leave(r, IF k = "raise"
                THEN Err(500, "Internal Server Error", <<>>)
                ELSE [status |-> 200,
                      body |-> [device_name |-> DeviceNameOf(AppstartResult(k))]], calls)
    /\ sent' = [sent EXCEPT ![r] = [cmd |-> "send_appstart", index |-> NoSlot,
                                    text |-> <<>>, ack |-> k]]
    /\ UNCHANGED <<slots, lockHolder, waiters, req, idx, acc, free, chan, mc,
                   open, scanlog, tokens>>

\* send_appstart ended as k: the device name is taken from the event or left
\* empty, and the finally clause follows.
AppstartDone(r, k) ==
    /\ pc[r] = "appstart"
    /\ k \in AppstartEnds
    /\ Leave(r, [status |-> 200,
                 body |-> [device_name |-> DeviceNameOf(AppstartResult(k))]], calls)
    /\ sent' = [sent EXCEPT ![r] = [cmd |-> "send_appstart", index |-> NoSlot,
                                    text |-> <<>>, ack |-> k]]
    /\ UNCHANGED <<slots, lockHolder, waiters, req, idx, acc, free, chan, mc,
                   open, scanlog, tokens>>

\* ---------------------------------------------------------- specifications

\* Inputs of the requests that run concurrently.
ConcChans == {<<>>, <<"#", "a">>, <<"b">>}
ConcMsgs == {<<"h">>}
ConcNames == {<<"a">>, <<" ", "A">>}
ConcProbeEnds == {"ok_idx", "error", "raise"}

Next ==
    \E r \in Reqs :
        \/ \E c \in ConcChans, m \in ConcMsgs : StartSend(r, c, m)
        \/ LockGrant(r)
        \/ \E ok \in BOOLEAN : ConnectDone(r, ok)
        \/ \E k \in ConcProbeEnds : ResolveProbe(r, k)
        \/ \E k \in SendEnds : SendDone(r, k)
        \/ \E how \in {"ok", "raise", "timeout"} : DisconnectDone(r, how)
        \/ StartList(r)
        \/ \E k \in ConcProbeEnds : ScanProbe(r, k)
        \/ \E n \in ConcNames : StartCreate(r, n)
        \/ \E k \in ConcProbeEnds : CreateProbe(r, k)
        \/ \E k \in WriteEnds, applied \in BOOLEAN : WriteDone(r, k, applied)
        \/ \E check \in LoginChecks, stored \in BOOLEAN : StartLogin(r, check, stored)
        \/ \E k \in AppstartEnds : AppstartDone(r, k)

Spec == Init /\ [][Next]_vars

\* One request at a time against the full family of tables and inputs.
One == "r1"

NextSeq ==
    \/ \E c \in ChanInputs, m \in MsgInputs : StartSend(One, c, m)
    \/ \E ok \in BOOLEAN : ConnectDone(One, ok)
    \/ \E k \in ProbeEnds : ResolveProbe(One, k)
    \/ \E k \in SendEnds : SendDone(One, k)
    \/ \E how \in {"ok", "raise", "timeout"} : DisconnectDone(One, how)
    \/ StartList(One)
    \/ \E k \in ProbeEnds : ScanProbe(One, k)
    \/ \E n \in NameInputs : StartCreate(One, n)
    \/ \E k \in ProbeEnds : CreateProbe(One, k)
    \/ \E k \in WriteEnds, applied \in BOOLEAN : WriteDone(One, k, applied)

SpecSeq == InitSeq /\ [][NextSeq]_vars

\* Three send requests that contend for the gate.  They are named in the
\* order in which they arrive: a request arrives after those before it.
FifoReqs == {"r1", "r2", "r3"}

Earlier(r) ==
    CASE r = "r1" -> {}
      [] r = "r2" -> {"r1"}
      [] OTHER -> {"r1", "r2"}

FifoTable == <<[channel_name |-> <<"a">>, channel_secret |-> Bytes(KeySecret)]>>

InitFifo == InitOver({FifoTable}, FifoReqs)

NextFifo ==
    \E r \in FifoReqs :
        \/ /\ \A q \in Earlier(r) : pc[q] # "idle"
           /\ \E c \in {<<"a">>, <<"b">>} : StartSend(r, c, <<"h">>)
        \/ LockGrant(r)
        \/ \E ok \in BOOLEAN : ConnectDone(r, ok)
        \/ \E k \in {"ok", "error"} : ResolveProbe(r, k)
        \/ \E k \in {"ok", "timeout"} : SendDone(r, k)
        \/ \E how \in {"ok", "raise"} : DisconnectDone(r, how)

SpecFifo == InitFifo /\ [][NextFifo]_vars

\* Every awaited device call of a send eventually returns, raises or times
\* out, and a waiter woken by release() is eventually scheduled.  Arrivals
\* are not forced.
FairFifo ==
    \A r \in FifoReqs :
        /\ WF_vars(LockGrant(r))
        /\ WF_vars(\E ok \in BOOLEAN : ConnectDone(r, ok))
        /\ WF_vars(\E k \in {"ok", "error"} : ResolveProbe(r, k))
        /\ WF_vars(\E k \in {"ok", "timeout"} : SendDone(r, k))
        /\ WF_vars(\E how \in {"ok", "raise"} : DisconnectDone(r, how))

SpecFifoFair == SpecFifo /\ FairFifo

\* Three create requests against a device that answers every probe: the
\* slot inside the table, and the ERROR event at the end of the table.
RaceTable == <<EmptySlot, EmptySlot>>

Faithful(r, k) == k = (IF idx[r] < Len(slots) THEN "ok" ELSE "error")

InitRace == InitOver({RaceTable}, FifoReqs)

NextRace ==
    \E r \in FifoReqs :
        \/ \E n \in {<<"a">>, <<"b">>} : StartCreate(r, n)
        \/ ConnectDone(r, TRUE)
        \/ \E k \in ProbeEnds : Faithful(r, k) /\ CreateProbe(r, k)
        \/ WriteDone(r, "ok", TRUE)
        \/ \E k \in ProbeEnds : Faithful(r, k) /\ ScanProbe(r, k)
        \/ DisconnectDone(r, "ok")

SpecRace == InitRace /\ [][NextRace]_vars

\* One request at a time against tables of one or two slots drawn from every
\* shape of payload the loops distinguish: the name empty or not, and the
\* secret missing, zero-length, all-zero bytes, bytes with one non-zero
\* nibble, or a string (rendered by str()) of zeros or of other characters.
ByteSecrets == {Bytes(<<>>), Bytes(ZeroSecret), Bytes(KeySecret), Bytes(<<0, 1>>)}
TextSecrets == {Text(<<>>), Text(<<"0", "0">>), Text(<<"0", "a">>)}

ClassVals(secrets) ==
    {[channel_name |-> n] : n \in {<<>>, <<"a">>}}
    \cup {[channel_name |-> n, channel_secret |-> x] : n \in {<<>>, <<"a">>}, x \in secrets}

ClassTables(first, second) ==
    {<<v>> : v \in ClassVals(first)}
    \cup {<<v, w>> : v \in ClassVals(first), w \in ClassVals(second)}

InitClass ==
    \/ InitWith(ClassTables(ByteSecrets, ByteSecrets))
    \/ InitWith(ClassTables(ByteSecrets, TextSecrets))
    \/ InitWith(ClassTables(TextSecrets, ByteSecrets))
    \/ InitWith(ClassTables(TextSecrets, TextSecrets))

NextClass ==
    \/ \E c \in {<<"a">>, <<"#">>} : StartSend(One, c, <<"h">>)
    \/ \E ok \in BOOLEAN : ConnectDone(One, ok)
    \/ \E k \in ProbeEnds : ResolveProbe(One, k)
    \/ \E k \in {"ok", "timeout"} : SendDone(One, k)
    \/ DisconnectDone(One, "ok")
    \/ StartList(One)
    \/ \E k \in ProbeEnds : ScanProbe(One, k)
    \/ \E n \in {<<"a">>, <<"t">>} : StartCreate(One, n)
    \/ \E k \in ProbeEnds : CreateProbe(One, k)
    \/ \E k \in {"ok", "timeout"} : WriteDone(One, k, TRUE)

SpecClass == InitClass /\ [][NextClass]_vars

\* A create followed, once it was answered 201, by a second request (a
\* create or a send) that runs alone, against a device that delivers every
\* slot, stores what is written and acknowledges it.
ThenTables ==
    {RaceTable,
     <<[channel_name |-> <<"a">>, channel_secret |-> Bytes(KeySecret)], EmptySlot>>,
     <<EmptySlot, [channel_name |-> <<"#", "A">>, channel_secret |-> Bytes(KeySecret)]>>,
     <<[channel_name |-> <<>>, channel_secret |-> Bytes(KeySecret)], EmptySlot, EmptySlot>>}

ThenNames == {<<"a">>, <<" ", "A">>, <<"#", "a">>, <<"#", " ", "a">>, <<"#">>}
ThenChans ==
    {<<"a">>, <<"A">>, <<"#", "a">>, <<"#", "A">>, <<" ", "a">>, <<"#", " ", "a">>,
     <<"#", "#", " ", "a">>, <<"#">>, <<"#", "#">>, <<>>, <<"b">>}

InitThen == InitWith(ThenTables)

Created == pc["r1"] = "done" /\ resp["r1"].status = 201

NextThen ==
    \/ \E n \in ThenNames : StartCreate("r1", n)
    \/ Created /\ \E n \in ThenNames \cup {<<"A">>} : StartCreate("r2", n)
    \/ Created /\ \E c \in ThenChans : StartSend("r2", c, <<"h">>)
    \/ \E r \in Reqs : ConnectDone(r, TRUE)
    \/ \E r \in Reqs, k \in ProbeEnds : Faithful(r, k) /\ CreateProbe(r, k)
    \/ \E r \in Reqs : WriteDone(r, "ok", TRUE)
    \/ \E r \in Reqs, k \in ProbeEnds : Faithful(r, k) /\ ScanProbe(r, k)
    \/ \E k \in ProbeEnds : Faithful("r2", k) /\ ResolveProbe("r2", k)
    \/ \E k \in {"ok", "timeout"} : SendDone("r2", k)
    \/ \E r \in Reqs : DisconnectDone(r, "ok")

SpecThen == InitThen /\ [][NextThen]_vars

\* ------------------------------------------------------------------ claims

\* A send request between acquiring and releasing device_lock.
SendInside(r) ==
    /\ req[r].kind = "send"
    /\ pc[r] \in {"connecting", "resolve", "sending", "disconnecting"}

\* C1: at most one POST /api/messages request is between acquiring and
\* releasing device_lock, so at most one send-path session is open.
C1_SendMutualExclusion ==
    /\ Cardinality({r \in Reqs : SendInside(r)}) <= 1
    /\ Cardinality({r \in open : req[r].kind = "send"}) <= 1
    /\ \A r \in Reqs : SendInside(r) => lockHolder = r

\* One send holds the gate with its session open while another one waits.
C1_Witness ==
    \E r, q \in Reqs :
        r # q /\ SendInside(r) /\ r \in open /\ pc[r] = "resolve" /\ pc[q] = "waitlock"

\* C2: across all endpoints at most one device session is open at a time.
C2_OneSessionAtATime == Cardinality(open) <= 1

\* C3: on every exit path of POST /api/messages taken after the session was
\* opened, disconnect is attempted before device_lock is released; the gate
\* is never free (or held by another request) while a send-path session is
\* still open.
C3_DisconnectBeforeRelease ==
    \A r \in Reqs :
        req[r].kind = "send" /\ mc[r] =>
            /\ r \in open => lockHolder = r
            /\ lockHolder # r => calls[r].disc = 1 /\ r \notin open /\ pc[r] = "done"

\* A send that timed out has closed its session and left the gate, and the
\* next send holds the gate with its own session open.
C3_Witness ==
    \E r, q \in Reqs :
        /\ r # q /\ req[r].kind = "send" /\ req[q].kind = "send"
        /\ pc[r] = "done" /\ mc[r] /\ resp[r].status = 504 /\ calls[r].disc = 1
        /\ q \in open /\ lockHolder = q

\* C4: list, create, send and login attempt disconnect exactly once when
\* they opened a session, whatever the outcome, and never when the open
\* failed.
C4_DisconnectExactlyOnce ==
    \A r \in Reqs :
        /\ calls[r].disc = IF mc[r] /\ pc[r] \in {"disconnecting", "done"} THEN 1 ELSE 0
        /\ mc[r] => calls[r].open = 1
        /\ pc[r] = "done" /\ ~mc[r] => r \notin open

\* A create answered 409 after one disconnect, and another request whose
\* open failed finished without any.
C4_Witness ==
    \E r, q \in Reqs :
        /\ r # q /\ pc[r] = "done" /\ pc[q] = "done"
        /\ req[r].kind = "create" /\ mc[r] /\ resp[r].status = 409 /\ calls[r].disc = 1
        /\ req[q].kind = "login" /\ ~mc[q] /\ calls[q].open = 1 /\ calls[q].disc = 0

\* A slot is populated when its name is not empty or its secret has a byte
\* (a character, for a secret that is not bytes) other than zero.
Populated(slot) ==
    LET raw == Get(slot, "channel_secret", Bytes(<<>>))
    IN  \/ Get(slot, "channel_name", <<>>) # <<>>
        \/ \E i \in 1..Len(raw.v) : raw.v[i] # (IF raw.t = "bytes" THEN 0 ELSE "0")

\* The slots the device delivered in the current pass of r.
Delivered(r) ==
    Cardinality({i \in 1..Len(scanlog[r].ends) : scanlog[r].ends[i] = "ok"})

\* The table as the current pass of r can see it: cut at the failed probe.
Seen(r) ==
    LET e == scanlog[r].ends
    IN  IF e # <<>> /\ e[Len(e)] # "ok" THEN SubSeq(slots, 1, Len(e) - 1) ELSE slots

\* C5: _fetch_all_channels returns, in ascending index order, exactly the
\* probed slots (those before the first failing probe, at most 8) that are
\* populated; no empty slot appears in the result.
C5_ScanResult ==
    \A r \in Reqs :
        req[r].kind \in {"list", "create"} /\ resp[r].status \in {200, 201} =>
            LET ch == resp[r].body.channels
                n == Delivered(r)
            IN  /\ n <= MAX_CHANNEL_SLOTS /\ n <= Len(slots)
                /\ \A i, j \in 1..Len(ch) : i < j => ch[i].index < ch[j].index
                /\ {ch[i].index : i \in 1..Len(ch)}
                      = {i \in 0..(n - 1) : Populated(slots[i + 1])}
                /\ \A i \in 1..Len(ch) :
                      /\ ch[i].name = slots[ch[i].index + 1].channel_name
                      /\ ch[i].secret_hex = Hex(slots[ch[i].index + 1].channel_secret.v)

\* A listing cut short by an exception at the fourth probe returns two
\* descriptors, one of them a named slot with an all-zero secret, and leaves
\* out the empty slot it probed.
C5_Witness ==
    \E r \in Reqs :
        /\ req[r].kind = "list" /\ pc[r] = "done" /\ resp[r].status = 200
        /\ scanlog[r].ends = <<"ok", "ok", "ok", "raise">>
        /\ Len(resp[r].body.channels) = 2
        /\ slots[1] = EmptySlot
        /\ slots[2].channel_name = <<"b">>

\* C6: in every probe loop the get_channel calls of one pass go to indices
\* 0, 1, 2, ... in increasing order, at most 8 per pass, and none is issued
\* after the first call that returned ERROR, returned no event or raised.
C6_ProbeOrder ==
    \A r \in Reqs :
        LET p == scanlog[r].probed
            e == scanlog[r].ends
        IN  /\ Len(p) <= MAX_CHANNEL_SLOTS
            /\ \A i \in 1..Len(p) : p[i] = i - 1
            /\ Len(e) <= Len(p) /\ Len(p) <= Len(e) + 1
            /\ \A i \in 1..Len(e) : e[i] # "ok" => Len(p) = i
            /\ calls[r].probe <= 2 * MAX_CHANNEL_SLOTS

\* The second pass of a create (the re-scan) probed all 8 indices and its
\* last probe returned the ERROR event.
C6_Witness ==
    \E r \in Reqs :
        /\ req[r].kind = "create" /\ scanlog[r].pass = 2
        /\ scanlog[r].probed = <<0, 1, 2, 3, 4, 5, 6, 7>>
        /\ Len(scanlog[r].ends) = 8 /\ scanlog[r].ends[8] = "error"

CaseSet(c) ==
    {c, LowerChar(c)} \cup {u \in {"A", "B", "T"} : LowerChar(u) = c}

\* The strings that differ from n only in the case of their letters.
RECURSIVE CaseForms(_)
CaseForms(n) ==
    IF n = <<>> THEN {<<>>}
    ELSE {<<c>> \o rest : c \in CaseSet(Head(n)), rest \in CaseForms(Tail(n))}

\* n with and without one leading marker.
MarkerForms(n) ==
    {n, <<"#">> \o n} \cup (IF n # <<>> /\ Head(n) = "#" THEN {Tail(n)} ELSE {})

Variants(n) == UNION {CaseForms(m) : m \in MarkerForms(n)}

\* The resolver of send request r has finished.
Resolved(r) ==
    req[r].kind = "send" /\ mc[r] /\ pc[r] \in {"sending", "disconnecting", "done"}

Outcome(r) ==
    IF sent[r].cmd = "send_chan_msg"
    THEN [found |-> TRUE, index |-> chan[r].index, name |-> chan[r].name]
    ELSE [found |-> FALSE, index |-> NoSlot, name |-> <<>>]

\* C7: resolution is marker- and case-insensitive in both directions:
\* resolving the requested name, the name with or without one leading '#'
\* and any case variant of these gives the same (index, name) or 404 for
\* all, and a populated slot whose stored name is such a variant of the
\* request is matched.
C7_MarkerAndCaseInsensitive ==
    \A r \in Reqs :
        Resolved(r) =>
            LET o == Outcome(r)
                t == Seen(r)
            IN  /\ ~o.found => resp[r].status = 404
                /\ \A v \in Variants(req[r].channel_name) : ResolveFrom(t, 0, v) = o
                /\ (\E i \in 1..Len(t) :
                        /\ Populated(t[i])
                        /\ req[r].channel_name \in Variants(t[i].channel_name))
                   => o.found

\* The request "a" resolved to a slot stored as "#A".
C7_Witness ==
    \E r \in Reqs :
        /\ Resolved(r) /\ req[r].channel_name = <<"a">>
        /\ Outcome(r).found /\ chan[r].name = <<"#", "A">> /\ chan[r].index = 1

\* No populated slot the resolver of r could see has a name equal to the
\* request once both are stripped of markers and lower-cased.
NoMatch(r) ==
    \A i \in 1..Len(Seen(r)) :
        Populated(Seen(r)[i]) =>
            Lower(LStrip(Seen(r)[i].channel_name, {"#"}))
                # Lower(LStrip(req[r].channel_name, {"#"}))

\* C8: when the resolver exhausts the 8 slots or stops at a sentinel without
\* a match, POST /api/messages fails with 404 carrying the requested
\* (trimmed) name, and no send_chan_msg is issued.
C8_NotFound ==
    \A r \in Reqs :
        Resolved(r) /\ NoMatch(r) =>
            /\ resp[r].status = 404
            /\ resp[r].message = "Channel '{}' not found on device"
            /\ resp[r].arg = Strip(req[r].channel)
            /\ calls[r].send = 0 /\ sent[r].cmd = "none"

\* A request for "#a" probed all 8 slots, found no match and got the 404.
C8_Witness ==
    \E r \in Reqs :
        /\ Resolved(r) /\ NoMatch(r) /\ pc[r] = "done"
        /\ req[r].channel = <<"#", "a">>
        /\ scanlog[r].ends = <<"ok", "ok", "ok", "ok", "ok", "ok", "ok", "ok">>
        /\ resp[r].status = 404

Blank(s) == \A i \in 1..Len(s) : s[i] \in WS

\* C9: a POST /api/messages whose channel or message is empty after
\* trimming fails with 400 naming the empty field (channel when both are
\* empty) and issues no device call: no open, probe, send or disconnect.
C9_EmptyInput ==
    \A r \in Reqs :
        req[r].kind = "send" /\ (Blank(req[r].channel) \/ Blank(req[r].message)) =>
            /\ pc[r] = "done"
            /\ resp[r].status = 400
            /\ resp[r].message = IF Blank(req[r].channel)
                                 THEN "channel must not be empty"
                                 ELSE "message must not be empty"
            /\ calls[r] = NoCalls /\ ~mc[r] /\ r \notin open
            /\ scanlog[r] = NoLog /\ sent[r] = NoSent
            /\ lockHolder # r

\* Both fields blank: the 400 names the channel.
C9_Witness ==
    \E r \in Reqs :
        /\ req[r].kind = "send" /\ req[r].channel = <<" ">> /\ req[r].message = <<>>
        /\ pc[r] = "done" /\ resp[r].status = 400
        /\ resp[r].message = "channel must not be empty"

\* C10: after a successful resolution, no acknowledgement within the bound
\* gives 504, an ERROR event gives 502 carrying the device's payload, a
\* missing response object gives 502 carrying "no response"; none of the
\* three gives 200.
C10_SendOutcome ==
    \A r \in Reqs :
        req[r].kind = "send" /\ sent[r].ack \in {"timeout", "error", "none"} =>
            /\ resp[r].status # 200
            /\ resp[r].status = IF sent[r].ack = "timeout" THEN 504 ELSE 502
            /\ sent[r].ack = "timeout" =>
                  resp[r].message = "Device did not acknowledge the message send (timeout)"
            /\ sent[r].ack = "error" =>
                  /\ resp[r].message = "Device rejected the message: {}"
                  /\ resp[r].arg = ErrPayload
            /\ sent[r].ack = "none" =>
                  /\ resp[r].message = "Device rejected the message: {}"
                  /\ resp[r].arg = NoResponse

\* A send resolved its channel, the wait expired, and the answer is 504.
C10_Witness ==
    \E r \in Reqs :
        /\ req[r].kind = "send" /\ pc[r] = "done" /\ chan[r].index = 0
        /\ sent[r].ack = "timeout" /\ resp[r].status = 504

\* C11: POST /api/messages answers 200 only if exactly one send_chan_msg was
\* issued in the request, to the index the resolver returned and with the
\* trimmed message text, and it was acknowledged by an event that is not
\* ERROR; the body carries that index and the name of the slot as the
\* device stores it, marker included.
C11_SuccessfulSend ==
    \A r \in Reqs :
        req[r].kind = "send" /\ resp[r].status = 200 =>
            LET o == ResolveFrom(Seen(r), 0, Strip(req[r].channel))
            IN  /\ calls[r].send = 1
                /\ sent[r].cmd = "send_chan_msg"
                /\ o.found /\ sent[r].index = o.index
                /\ sent[r].text = Strip(req[r].message)
                /\ sent[r].ack = "ok"
                /\ resp[r].body.channel_index = o.index
                /\ o.index < Len(slots)
                /\ resp[r].body.channel_name = slots[o.index + 1].channel_name

\* " h " sent to "a" went out as "h" to slot 1, stored as "#A", and the
\* answer names "#A".
C11_Witness ==
    \E r \in Reqs :
        /\ req[r].kind = "send" /\ pc[r] = "done" /\ resp[r].status = 200
        /\ req[r].channel = <<" ", "a", " ">> /\ req[r].message = <<" ", "h", " ">>
        /\ sent[r].text = <<"h">> /\ sent[r].index = 1
        /\ resp[r].body.channel_name = <<"#", "A">>

\* The creator's loop of r has ended and its re-scan has not begun.
Scanned(r) ==
    /\ req[r].kind = "create" /\ mc[r]
    /\ pc[r] = "writing" \/ (pc[r] \in {"disconnecting", "done"} /\ scanlog[r].pass = 1)

\* The slots of table t, other than the one r wrote, that are populated
\* under a name equal to the requested one up to case.
Conflicts(r, t) ==
    {i \in 0..(Len(t) - 1) :
        /\ i # sent[r].index
        /\ Populated(t[i + 1])
        /\ Lower(t[i + 1].channel_name) = Lower(Strip(req[r].name))}

C13_NoFreeSlot ==
    \A r \in Reqs :
        /\ Scanned(r)
        /\ Len(slots) = MAX_CHANNEL_SLOTS
        /\ sent[r].ack = "pending"
        /\ \A i \in 1..Len(slots) : Populated(slots[i])
        /\ Conflicts(r, slots) = {}
        => /\ resp[r].status = 400
           /\ resp[r].message = "No free channel slot available (all 8 slots are occupied)"
           /\ calls[r].set = 0 /\ sent[r] = NoSent /\ pc[r] # "writing"

\* "t" was refused after all 8 probes returned populated slots.
C13_Witness ==
    \E r \in Reqs :
        /\ Scanned(r) /\ pc[r] = "done" /\ req[r].name = <<"t">>
        /\ Len(scanlog[r].ends) = MAX_CHANNEL_SLOTS
        /\ \A i \in 1..MAX_CHANNEL_SLOTS : scanlog[r].ends[i] = "ok" /\ Populated(slots[i])
        /\ resp[r].status = 400 /\ calls[r].set = 0

\* C14: POST /api/channels answers 400 "No free channel slot available (all
\* 8 slots are occupied)" only when all 8 slots of the device are populated.
C14_NoFreeSlotOnlyWhenFull ==
    \A r \in Reqs :
        /\ req[r].kind = "create"
        /\ resp[r].status = 400
        /\ resp[r].message = "No free channel slot available (all 8 slots are occupied)"
        => /\ Len(slots) = MAX_CHANNEL_SLOTS
           /\ \A i \in 1..Len(slots) : Populated(slots[i])

\* The probed indices of the current pass of r whose slot is classified
\* empty: blank name and a secret that renders as zeros only.
EmptySeen(r) ==
    {i \in 0..(Len(Seen(r)) - 1) : i < MAX_CHANNEL_SLOTS /\ ~Populated(Seen(r)[i + 1])}

\* C15: whenever POST /api/channels issues set_channel, the target is the
\* lowest probed index whose slot was classified empty during the request's
\* scan, never a later empty slot, and the name written is the trimmed
\* requested name; set_channel is issued once.
C15_FirstEmptySlot ==
    \A r \in Reqs :
        req[r].kind = "create" /\ calls[r].set > 0 =>
            /\ calls[r].set = 1
            /\ sent[r].cmd = "set_channel"
            /\ sent[r].text = Strip(req[r].name)
            /\ sent[r].index >= 0 /\ sent[r].index < Len(slots)
            /\ \A i \in 0..(sent[r].index - 1) : Populated(slots[i + 1])
            /\ pc[r] = "writing" =>
                  /\ EmptySeen(r) # {}
                  /\ sent[r].index = Min(EmptySeen(r))

\* " A" is being written as "A" to slot 1, the first of several empty slots.
C15_Witness ==
    \E r \in Reqs :
        /\ req[r].kind = "create" /\ pc[r] = "writing" /\ req[r].name = <<" ", "A">>
        /\ sent[r].index = 1 /\ sent[r].text = <<"A">>
        /\ Cardinality(EmptySeen(r)) > 1
        /\ slots[1].channel_name = <<"b">>

\* The descriptor of the channel r wrote is in the list ch.
HasCreated(r, ch) ==
    \E k \in 1..Len(ch) :
        ch[k].index = sent[r].index /\ ch[k].name = Strip(req[r].name)

C17_EmptyName ==
    \A r \in Reqs :
        req[r].kind = "create" /\ Blank(req[r].name) =>
            /\ pc[r] = "done"
            /\ resp[r].status = 400
            /\ resp[r].message = "Channel name must not be empty"
            /\ calls[r] = NoCalls /\ ~mc[r] /\ r \notin open
            /\ scanlog[r] = NoLog /\ sent[r] = NoSent

\* A name of one space was refused with no device call.
C17_Witness ==
    \E r \in Reqs :
        /\ req[r].kind = "create" /\ req[r].name = <<" ">>
        /\ pc[r] = "done" /\ resp[r].status = 400 /\ calls[r].open = 0

\* C18: in POST /api/channels a missing response or an ERROR event in answer
\* to set_channel fails the request with 504 "Device did not acknowledge
\* channel creation" carrying the device's error payload ("no response" when
\* there is none), and an exception raised by set_channel with 502 "Failed
\* to write channel"; in each of these failures no probe of a re-scan is
\* issued and no channel list is returned.
C18_WriteFailure ==
    \A r \in Reqs :
        req[r].kind = "create" /\ sent[r].ack \in {"none", "error", "raise"} =>
            /\ resp[r].status = IF sent[r].ack = "raise" THEN 502 ELSE 504
            /\ resp[r].message = IF sent[r].ack = "raise"
                                 THEN "Failed to write channel: {}"
                                 ELSE "Device did not acknowledge channel creation: {}"
            /\ resp[r].arg = CASE sent[r].ack = "error" -> ErrPayload
                                [] sent[r].ack = "none" -> NoResponse
                                [] OTHER -> ExcText
            /\ "body" \notin DOMAIN resp[r]
            /\ scanlog[r].pass = 1
            /\ calls[r].probe = Len(scanlog[r].probed)
            /\ pc[r] \in {"disconnecting", "done"}

\* set_channel(0, "t") was answered by an ERROR event: 504 with its payload,
\* after the one pass of 8 probes.
C18_Witness ==
    \E r \in Reqs :
        /\ req[r].kind = "create" /\ pc[r] = "done" /\ sent[r].ack = "error"
        /\ sent[r].index = 0 /\ sent[r].text = <<"t">>
        /\ resp[r].status = 504 /\ resp[r].arg = ErrPayload
        /\ calls[r].probe = MAX_CHANNEL_SLOTS

\* The failure kind of the taxonomy that the response of r stands for, read
\* from the endpoint and the message of the error.
Kind(r) ==
    IF resp[r].status \in {0, 200, 201} \/ req[r].kind \notin {"send", "create", "list"}
    THEN "none"
    ELSE CASE resp[r].message \in {"channel must not be empty",
                                   "message must not be empty",
                                   "Channel name must not be empty"} -> "InvalidArgument"
           [] resp[r].message = "Device connection failed: {}" -> "DeviceConnectionFailure"
           [] resp[r].message = "Channel '{}' not found on device" -> "ChannelNotFound"
           [] resp[r].message = "Channel '{}' already exists at index {}" -> "ChannelNameConflict"
           [] resp[r].message = "No free channel slot available (all 8 slots are occupied)"
                -> "NoFreeSlot"
           [] resp[r].message \in {"Device rejected the message: {}",
                                   "Device did not acknowledge channel creation: {}"}
                -> "DeviceRejected"
           [] resp[r].message = "Device did not acknowledge the message send (timeout)"
                -> "DeviceTimeout"
           [] OTHER -> "none"

\* C19 as stated: two failures of different kinds never carry the same
\* status code.
C19_DistinctStatus ==
    \A r, q \in Reqs :
        Kind(r) # "none" /\ Kind(q) # "none" /\ Kind(r) # Kind(q) =>
            resp[r].status # resp[q].status

\* The status code the handlers give each kind.
StatusOf(kind, endpoint) ==
    CASE kind = "InvalidArgument" -> 400
      [] kind = "NoFreeSlot" -> 400
      [] kind = "ChannelNotFound" -> 404
      [] kind = "ChannelNameConflict" -> 409
      [] kind = "DeviceConnectionFailure" -> 502
      [] kind = "DeviceRejected" -> IF endpoint = "send" THEN 502 ELSE 504
      [] OTHER -> 504

\* C19 amended: every failure kind has a fixed status code per endpoint:
\* InvalidArgument and NoFreeSlot 400, ChannelNotFound 404,
\* ChannelNameConflict 409, DeviceConnectionFailure 502, DeviceRejected 502
\* on send and 504 on create, DeviceTimeout 504; only ChannelNotFound and
\* ChannelNameConflict have a code no other kind shares.
C19_StatusByKind ==
    \A r, q \in Reqs :
        Kind(r) # "none" =>
            /\ resp[r].status = StatusOf(Kind(r), req[r].kind)
            /\ Kind(q) # "none" /\ Kind(q) # Kind(r)
               /\ Kind(r) \in {"ChannelNotFound", "ChannelNameConflict"}
               => resp[q].status # resp[r].status

\* One request failed with ChannelNotFound (404) and another with
\* ChannelNameConflict (409).
C19_Witness ==
    \E r, q \in Reqs :
        /\ pc[r] = "done" /\ pc[q] = "done"
        /\ Kind(r) = "ChannelNotFound" /\ resp[r].status = 404
        /\ Kind(q) = "ChannelNameConflict" /\ resp[q].status = 409

\* The calls of a request that reach the device, disconnect aside.
Commands(c) == c.open + c.probe + c.set + c.send + c.appstart

\* C20: no failure is retried: a request opens the session at most once and
\* issues set_channel, send_chan_msg and disconnect at most once each, and
\* once its response is a failure it issues no further device command other
\* than the one disconnect.
C20_NoRetry ==
    /\ [](\A r \in Reqs :
            /\ calls[r].open <= 1 /\ calls[r].set <= 1
            /\ calls[r].send <= 1 /\ calls[r].disc <= 1)
    /\ [][\A r \in Reqs :
            resp[r].status \notin {0, 200, 201} =>
                /\ resp'[r] = resp[r]
                /\ Commands(calls'[r]) = Commands(calls[r])
                /\ sent'[r].cmd = sent[r].cmd]_vars

\* A create whose set_channel raised ended with 502 after one open, one
\* set_channel and one disconnect, and a send that timed out with 504 after
\* one send_chan_msg.
C20_Witness ==
    \E r, q \in Reqs :
        /\ pc[r] = "done" /\ req[r].kind = "create" /\ sent[r].ack = "raise"
        /\ resp[r].status = 502
        /\ calls[r].open = 1 /\ calls[r].set = 1 /\ calls[r].disc = 1
        /\ pc[q] = "done" /\ req[q].kind = "send" /\ sent[q].ack = "timeout"
        /\ calls[q].open = 1 /\ calls[q].send = 1 /\ calls[q].disc = 1

\* C21: a list answered with status ok (GET /api/channels, or the 201 of
\* POST /api/channels) is empty only when the device has no populated slot;
\* a pass in which a probe failed never ends in a successful response with
\* an empty list.
C21_EmptyListGenuine ==
    \A r \in Reqs :
        /\ req[r].kind \in {"list", "create"}
        /\ resp[r].status \in {200, 201}
        /\ resp[r].body.channels = <<>>
        => /\ \A i \in 1..Len(slots) : ~Populated(slots[i])
           /\ \A i \in 1..Len(scanlog[r].ends) : scanlog[r].ends[i] \notin {"raise", "none"}

\* C22: send requests that contend for device_lock get it in the order in
\* which they started waiting: of two requests the one that arrived first
\* opens its session first, and the queue of waiters is in arrival order.
C22_FifoGate ==
    /\ \A b \in FifoReqs : \A a \in Earlier(b) :
          calls[b].open > 0 => calls[a].open > 0
    /\ \A i, j \in 1..Len(waiters) : i < j => waiters[i] \in Earlier(waiters[j])

\* The first request has left the gate while the second and the third are
\* both waiting for it, and later the second holds it while the third waits.
C22_Witness ==
    /\ pc["r1"] = "done" /\ calls["r1"].disc = 1
    /\ pc["r3"] = "waitlock" /\ calls["r3"].open = 0
    /\ \/ waiters = <<"r2", "r3">> /\ lockHolder = NoReq
       \/ waiters = <<"r3">> /\ lockHolder = "r2"

\* The open of the session of r has failed.
OpenFailed(r) == pc[r] = "done" /\ calls[r].open = 1 /\ ~mc[r]

\* C23: when opening the device session fails, list, create and send answer
\* 502 "Device connection failed", issue no get_channel, set_channel,
\* send_chan_msg or disconnect, and a send has released device_lock.
C23_ConnectFailure ==
    \A r \in Reqs :
        req[r].kind \in {"list", "create", "send"} /\ OpenFailed(r) =>
            /\ resp[r].status = 502
            /\ resp[r].message = "Device connection failed: {}"
            /\ resp[r].arg = ExcText
            /\ calls[r].probe = 0 /\ calls[r].set = 0 /\ calls[r].send = 0
            /\ calls[r].disc = 0
            /\ scanlog[r] = NoLog /\ sent[r] = NoSent /\ r \notin open
            /\ lockHolder # r /\ \A i \in 1..Len(waiters) : waiters[i] # r

\* A send whose open failed answered 502 and left the gate, which the next
\* send now holds.
C23_Witness ==
    \E r, q \in Reqs :
        /\ req[r].kind = "send" /\ OpenFailed(r) /\ resp[r].status = 502
        /\ req[q].kind = "send" /\ lockHolder = q /\ q \in open

\* No two populated slots of table t have names equal up to case.
NoCollision(t) ==
    \A i, j \in 1..Len(t) :
        i < j /\ Populated(t[i]) /\ Populated(t[j]) =>
            Lower(t[i].channel_name) # Lower(t[j].channel_name)

\* C24: starting from a table without name collisions, after any sequence
\* or interleaving of POST /api/channels requests no two populated slots
\* have names equal up to case.
C24_NoNameCollision == NoCollision(slots)

\* C25: POST /api/login stores and returns a token only if the user row
\* exists, the account is active and the password matches; in every other
\* case it answers 401 (503 when the query fails), stores no token and
\* never contacts the device.  (A failed insert of the token is a 503 too,
\* with no token and no device call.)
C25_LoginGuard ==
    \A r \in Reqs :
        req[r].kind = "login" =>
            /\ (r \in tokens \/ resp[r].status = 200 \/ calls[r] # NoCalls \/ mc[r])
                  => req[r].check = "ok" /\ req[r].insert = "ok" /\ r \in tokens
            /\ req[r].check # "ok" \/ req[r].insert = "failed" =>
                  /\ pc[r] = "done"
                  /\ resp[r].status = IF req[r].check \in {"query_failed", "ok"}
                                      THEN 503 ELSE 401
                  /\ r \notin tokens /\ calls[r] = NoCalls /\ r \notin open

\* A login with a wrong password was refused without a token or a device
\* call, and one with valid credentials stored a token and answered 200.
C25_Witness ==
    \E r, q \in Reqs :
        /\ req[r].kind = "login" /\ req[r].check = "bad_password"
        /\ resp[r].status = 401 /\ r \notin tokens /\ calls[r].open = 0
        /\ req[q].kind = "login" /\ req[q].check = "ok" /\ pc[q] = "done"
        /\ q \in tokens /\ resp[q].status = 200

\* The indices of the populated slots of t whose name equals the requested
\* channel of r once both are stripped of markers and lower-cased.
Matches(r, t) ==
    {i \in 0..(Len(t) - 1) :
        /\ i < MAX_CHANNEL_SLOTS
        /\ Populated(t[i + 1])
        /\ Lower(LStrip(t[i + 1].channel_name, {"#"}))
              = Lower(LStrip(Strip(req[r].channel), {"#"}))}

\* C26: when several populated slots match the requested channel the
\* resolver returns the one with the lowest probed index and issues no
\* get_channel after the matching probe: a send that resolved has issued
\* (index of the match + 1) probes.
C26_FirstMatch ==
    \A r \in Reqs :
        Resolved(r) /\ Outcome(r).found =>
            /\ calls[r].probe = chan[r].index + 1
            /\ Len(scanlog[r].probed) = chan[r].index + 1
            /\ Len(scanlog[r].ends) = chan[r].index + 1
            /\ Matches(r, slots) # {}
            /\ chan[r].index = Min(Matches(r, slots))
            /\ sent[r].index = chan[r].index

\* Slots 0 and 1 both match "#A" ("a" and "#A"): the send went to slot 0
\* after one probe.
C26_Witness ==
    \E r \in Reqs :
        /\ Resolved(r) /\ pc[r] = "done" /\ req[r].channel = <<"#", "A">>
        /\ Matches(r, slots) = {0, 1}
        /\ chan[r].index = 0 /\ chan[r].name = <<"a">> /\ calls[r].probe = 1

\* The removal of a single leading '#', if present, and of nothing else.
StripOne(s) == IF s # <<>> /\ s[1] = "#" THEN Tail(s) ELSE s

\* C27: _strip_hash removes a single leading '#' and nothing else: the
\* needle of a send is the requested channel without its first '#', and a
\* send resolves only to a slot whose name, without its first '#', equals
\* that needle case-insensitively, so "##a" never resolves to slot "a".
C27_StripsOneHash ==
    \A r \in Reqs :
        Resolved(r) =>
            /\ Needle(req[r].channel_name) = Lower(StripOne(req[r].channel_name))
            /\ Outcome(r).found =>
                  Lower(StripOne(chan[r].name)) = Lower(StripOne(req[r].channel_name))

\* The last get_channel of the current pass of r raised an exception.
ProbeRaised(r) ==
    LET e == scanlog[r].ends IN e # <<>> /\ e[Len(e)] = "raise"

\* C28: an exception raised by a get_channel probe is never the request's
\* failure.  The scanner answers with the descriptors collected before it,
\* the resolver answers 404 without sending, and the creator goes on to the
\* free-slot decision with what it collected: set_channel to the first empty
\* slot it saw, or the no-free-slot 400 when it saw none.
C28_ProbeExceptionLocal ==
    \A r \in Reqs :
        ProbeRaised(r) =>
            LET n == Len(scanlog[r].ends) - 1
                pass == scanlog[r].pass
            IN  /\ pc[r] \in {"writing", "disconnecting", "done"}
                /\ resp[r].status # 500
                /\ req[r].kind = "send" =>
                      /\ resp[r] = NotFound(req[r].channel_name)
                      /\ calls[r].send = 0 /\ chan[r] = NoChan
                /\ req[r].kind = "list" \/ (req[r].kind = "create" /\ pass = 2) =>
                      /\ resp[r].status = IF req[r].kind = "list" THEN 200 ELSE 201
                      /\ resp[r].body.status = "ok"
                      /\ resp[r].body.channels = acc[r]
                      /\ {acc[r][j].index : j \in 1..Len(acc[r])}
                            = {i \in 0..(n - 1) : Populated(slots[i + 1])}
                /\ req[r].kind = "create" /\ pass = 1 =>
                      /\ calls[r].set = IF free[r] = NoSlot THEN 0 ELSE 1
                      /\ calls[r].set = 0 =>
                            /\ resp[r].status = 400
                            /\ EmptySeen(r) = {}
                      /\ pc[r] = "writing" =>
                            /\ resp[r] = NoResp
                            /\ sent[r].index = Min(EmptySeen(r))
                      /\ resp[r].status \in {0, 400, 502, 504}

\* A listing whose third probe raised has answered 200 with the one
\* populated slot of the two it was delivered.
C28_Witness ==
    \E r \in Reqs :
        /\ req[r].kind = "list" /\ pc[r] = "done" /\ ProbeRaised(r)
        /\ scanlog[r].ends = <<"ok", "ok", "raise">>
        /\ resp[r].status = 200 /\ Len(resp[r].body.channels) = 1
        /\ Len(slots) > 2 /\ Populated(slots[3])

\* C29: the outcome is determined before disconnect is awaited, and the end
\* of the disconnect, whether it returns, raises or times out, leaves the
\* response (status and body) as it was, closes the session, changes neither
\* the device table nor what was sent, and leaves device_lock released by a
\* send.
C29_DisconnectKeepsOutcome ==
    /\ [](\A r \in Reqs : pc[r] = "disconnecting" => resp[r] # NoResp /\ mc[r])
    /\ [][\A r \in Reqs :
            pc[r] = "disconnecting" /\ pc'[r] # "disconnecting" =>
                /\ pc'[r] = "done"
                /\ resp'[r] = resp[r]
                /\ r \notin open'
                /\ slots' = slots /\ sent' = sent /\ calls' = calls
                /\ lockHolder' # r
                /\ req[r].kind = "send" => lockHolder = r /\ lockHolder' = NoReq]_vars

\* A send answered 200 has ended its disconnect: its session is closed and
\* the gate is free while the other request is still waiting to be granted.
C29_Witness ==
    \E r \in Reqs :
        /\ req[r].kind = "send" /\ pc[r] = "done" /\ resp[r].status = 200
        /\ calls[r].disc = 1 /\ r \notin open
        /\ lockHolder = NoReq /\ waiters # <<>>

\* C30: the scanner, the creator and the resolver classify every slot
\* payload alike: a slot is empty iff its name is empty and its secret is
\* missing, zero-length or renders to a hex string of '0' characters only.
\* No list contains an empty slot and every populated slot delivered is
\* listed; the resolver matches populated slots only and passes over no
\* populated matching slot; a 409 names a populated slot; and the slot the
\* creator writes to was empty, every slot before it populated.
C30_SameClassification ==
    /\ \A i \in 1..Len(slots) :
          LET d == Descriptor(slots[i], i - 1)
          IN  /\ IsEmptySlot(d.name, d.secret_hex) = ~Populated(slots[i])
              /\ ResolverSkips(d.name, d.secret_hex) = ~Populated(slots[i])
    /\ \A r \in Reqs :
          /\ \A j \in 1..Len(acc[r]) : Populated(slots[acc[r][j].index + 1])
          /\ req[r].kind \in {"list", "create"} /\ resp[r].status \in {200, 201} =>
                {resp[r].body.channels[j].index : j \in 1..Len(resp[r].body.channels)}
                   = {i \in 0..(Delivered(r) - 1) : Populated(slots[i + 1])}
          /\ Resolved(r) =>
                IF Outcome(r).found
                THEN /\ Populated(slots[chan[r].index + 1])
                     /\ chan[r].index = Min(Matches(r, slots))
                ELSE Matches(r, Seen(r)) = {}
          /\ req[r].kind = "create" /\ resp[r].status = 409 =>
                Populated(slots[resp[r].index + 1])
          /\ req[r].kind = "create" /\ pc[r] = "writing" =>
                /\ ~Populated(slots[sent[r].index + 1])
                /\ \A i \in 0..(sent[r].index - 1) : Populated(slots[i + 1])

\* A send to "#" passed over a nameless slot without a secret and resolved
\* to the nameless slot whose secret is the string "0a".
C30_Witness ==
    \E r \in Reqs :
        /\ Resolved(r) /\ pc[r] = "done" /\ req[r].channel = <<"#">>
        /\ Len(slots) = 2
        /\ DOMAIN slots[1] = {"channel_name"} /\ slots[1].channel_name = <<>>
        /\ DOMAIN slots[2] = {"channel_name", "channel_secret"}
        /\ slots[2].channel_name = <<>>
        /\ slots[2].channel_secret.t = "str"
        /\ slots[2].channel_secret.v = <<"0", "a">>
        /\ chan[r].index = 1 /\ resp[r].status = 200 /\ calls[r].probe = 2

\* C31: GET /api/channels and POST /api/channels never wait on device_lock:
\* a list or create request is never a waiter or the holder of the gate, and
\* from its arrival on its own open of the device session has been issued,
\* whoever holds the gate.
C31_ChannelsUngated ==
    \A r \in Reqs :
        req[r].kind \in {"list", "create"} =>
            /\ pc[r] # "waitlock"
            /\ lockHolder # r
            /\ \A i \in 1..Len(waiters) : waiters[i] # r
            /\ pc[r] # "idle" /\ resp[r].status # 400 => calls[r].open = 1

\* While a send holds the gate with its session open and its message being
\* sent, a create has its own session open and is past its scan and its
\* write, on the way to its 201.
C31_Witness ==
    \E r, q \in Reqs :
        /\ req[q].kind = "send" /\ lockHolder = q /\ q \in open /\ pc[q] = "sending"
        /\ req[r].kind = "create" /\ r \in open /\ pc[r] = "scan"
        /\ scanlog[r].pass = 2 /\ sent[r].ack = "ok"

\* The call a send awaits while it holds the gate without a bound on the
\* wait: the open of the session or a get_channel probe.
AwaitsUnbounded(r) ==
    lockHolder = r /\ req[r].kind = "send" /\ pc[r] \in {"connecting", "resolve"}

\* C32: the open of the session and the get_channel probes of a send have no
\* bounded wait.  As long as the call awaited by the holder of device_lock
\* has not returned, the holder keeps the gate and every send waiting on it
\* goes on waiting without having opened a session; only the return of that
\* call lets the holder move on.
C32_UnboundedHold ==
    /\ [](\A r \in DOMAIN pc :
            pc[r] = "waitlock" =>
                /\ lockHolder # NoReq \/ waiters # <<>>
                /\ calls[r].open = 0 /\ resp[r] = NoResp)
    /\ [][\A r \in DOMAIN pc :
            /\ AwaitsUnbounded(r)
            /\ pc'[r] = pc[r] /\ scanlog'[r] = scanlog[r]
            => /\ lockHolder' = r
               /\ resp'[r] = resp[r]
               /\ \A q \in DOMAIN pc :
                     pc[q] = "waitlock" => pc'[q] = "waitlock" /\ calls'[q].open = 0]_vars

\* The first send awaits its second probe while the two others wait on the
\* gate.
C32_Witness ==
    /\ AwaitsUnbounded("r1") /\ pc["r1"] = "resolve"
    /\ scanlog["r1"].probed = <<0, 1>> /\ scanlog["r1"].ends = <<"ok">>
    /\ waiters = <<"r2", "r3">>
    /\ pc["r2"] = "waitlock" /\ pc["r3"] = "waitlock"

\* C33: a failure to obtain the device name never fails the login.  After
\* valid credentials and a stored token the token stays stored and the
\* response is 200; when the open of the session failed, or send_appstart
\* raised, returned nothing or returned an ERROR event, device_name is the
\* empty string; and a session that was opened is disconnected once.
C33_LoginSurvivesDevice ==
    \A r \in Reqs :
        req[r].kind = "login" /\ req[r].check = "ok" /\ req[r].insert = "ok" =>
            /\ r \in tokens
            /\ pc[r] \in {"connecting", "appstart", "disconnecting", "done"}
            /\ pc[r] \in {"disconnecting", "done"} =>
                  /\ resp[r].status = 200
                  /\ ~mc[r] \/ sent[r].ack \in {"error", "none", "raise"} =>
                        resp[r].body.device_name = <<>>
                  /\ sent[r].ack = "ok" => resp[r].body.device_name = DeviceName
                  /\ calls[r].disc = IF mc[r] THEN 1 ELSE 0
                  /\ calls[r].appstart = IF mc[r] THEN 1 ELSE 0
            /\ pc[r] = "done" => r \notin open

\* A login whose send_appstart raised has answered 200 with an empty device
\* name and closed its session.
C33_Witness ==
    \E r \in Reqs :
        /\ req[r].kind = "login" /\ pc[r] = "done" /\ mc[r]
        /\ sent[r].cmd = "send_appstart" /\ sent[r].ack = "raise"
        /\ resp[r].status = 200 /\ resp[r].body.device_name = <<>>
        /\ r \in tokens /\ r \notin open /\ calls[r].disc = 1

\* C34: when every device call eventually returns, raises or times out,
\* every POST /api/messages that arrived eventually has its response and is
\* outside the gate, and every request waiting on the gate eventually holds
\* it.
C34_SendTerminates ==
    \A r \in FifoReqs :
        /\ (pc[r] # "idle") ~> (pc[r] = "done" /\ resp[r] # NoResp /\ lockHolder # r)
        /\ (pc[r] = "waitlock") ~> (lockHolder = r)

\* The three sends have been answered, the last one after the two before it
\* had left the gate, and the gate is free.
C34_Witness ==
    /\ \A r \in FifoReqs : pc[r] = "done" /\ resp[r] # NoResp /\ calls[r].open = 1
    /\ resp["r1"].status = 504 /\ resp["r2"].status = 404 /\ resp["r3"].status = 200
    /\ lockHolder = NoReq /\ waiters = <<>>

\* C35: a POST /api/messages whose channel or message is empty after
\* trimming never acquires or waits on device_lock.  Its 400 is determined
\* in the step of its arrival, which leaves the holder and the queue of the
\* gate as they were, whoever holds the gate; it never holds the gate, never
\* waits and issues no device call.
C35_InvalidSendUngated ==
    /\ [](\A r \in Reqs :
            req[r].kind = "send" /\ (Blank(req[r].channel) \/ Blank(req[r].message)) =>
                /\ pc[r] = "done"
                /\ resp[r].status = 400
                /\ lockHolder # r
                /\ \A i \in 1..Len(waiters) : waiters[i] # r
                /\ calls[r] = NoCalls)
    /\ [][\A r \in Reqs :
            /\ pc[r] = "idle" /\ req'[r].kind = "send"
            /\ Blank(req'[r].channel) \/ Blank(req'[r].message)
            => /\ pc'[r] = "done"
               /\ lockHolder' = lockHolder /\ waiters' = waiters]_vars

\* A send with an empty channel has its 400 while another send holds the
\* gate and awaits its first probe.
C35_Witness ==
    \E r, q \in Reqs :
        /\ req[r].kind = "send" /\ Blank(req[r].channel)
        /\ pc[r] = "done" /\ resp[r].status = 400 /\ calls[r] = NoCalls
        /\ req[q].kind = "send" /\ lockHolder = q /\ q \in open /\ pc[q] = "resolve"

\* C36: GET /api/channels and POST /api/messages never issue set_channel,
\* and a POST /api/channels answered 400, 409, or 502 because the open
\* failed has issued none; the device table changes only in the step in
\* which the set_channel of a create that awaits it is applied, so every
\* other request leaves the table as it was.
C36_NoWriteWithoutCreate ==
    /\ [](\A r \in Reqs :
            \/ req[r].kind \in {"list", "send", "login"}
            \/ /\ req[r].kind = "create"
               /\ resp[r].status \in {400, 409} \/ (resp[r].status = 502 /\ ~mc[r])
            => calls[r].set = 0 /\ sent[r].cmd # "set_channel")
    /\ [][slots' # slots =>
            \E r \in Reqs :
                /\ req[r].kind = "create" /\ pc[r] = "writing" /\ calls[r].set = 1
                /\ sent[r].cmd = "set_channel"
                /\ slots' = DeviceWrite(slots, sent[r].index, sent[r].text)
                /\ resp'[r].status \notin {400, 409}]_vars

\* A create answered 409 for the second slot has finished without a
\* set_channel.
C36_Witness ==
    \E r \in Reqs :
        /\ req[r].kind = "create" /\ pc[r] = "done"
        /\ resp[r].status = 409 /\ resp[r].index = 1
        /\ calls[r].probe = 2 /\ calls[r].set = 0 /\ sent[r] = NoSent

\* C37: a create never overwrites a populated channel: in the step in which
\* the set_channel of a request is applied by the device, the targeted slot
\* is empty on the device.
C37_NeverOverwrites ==
    [][\A r \in DOMAIN pc :
          /\ req[r].kind = "create" /\ pc[r] = "writing" /\ pc'[r] # "writing"
          /\ sent'[r].ack = "ok" \/ slots' # slots
          => ~Populated(slots[sent[r].index + 1])]_vars

\* The name the first request created, as trimmed by the handler.
CreatedName == req["r1"].channel_name

\* The second request is a create for a case variant of the created name.
CreatesVariant ==
    /\ Created /\ req["r2"].kind = "create" /\ pc["r2"] \in {"disconnecting", "done"}
    /\ Lower(req["r2"].name) = Lower(CreatedName)

\* The second request, a send that has left the resolver, found a populated
\* slot whose stripped lower-cased name is that of the created name.
ResolvesToCreated ==
    /\ sent["r2"].cmd = "send_chan_msg" /\ calls["r2"].send = 1
    /\ chan["r2"].index >= 0 /\ chan["r2"].index < Len(slots)
    /\ Populated(slots[chan["r2"].index + 1])
    /\ slots[chan["r2"].index + 1].channel_name = chan["r2"].name
    /\ Lower(LStrip(chan["r2"].name, {"#"})) = Lower(LStrip(CreatedName, {"#"}))

SentTo(forms) ==
    /\ Created /\ req["r2"].kind = "send" /\ pc["r2"] \in {"sending", "disconnecting", "done"}
    /\ req["r2"].channel \in forms

====
